---- MODULE Spec2Model ----
(***************************************************************************)
(* TrieStore (src/trie/concurrent_trie.hpp): a thread-safe facade over a   *)
(* copy-on-write trie.  Threads call Get, Put and Remove; each call is     *)
(* broken into the steps between which another thread can run (one step    *)
(* per lock operation and per access to root_).  Nodes live in a heap      *)
(* with shared ownership: a node exists as long as it is reachable from an *)
(* owning Trie handle (root_ or a ValueGuard's root_).                     *)
(* The Trie class itself lives in copy-on-write_trie.hpp; Lookup, Insert   *)
(* and Erase follow its description (path copying, shared nodes).          *)
(***************************************************************************)
EXTENDS Integers, Sequences, FiniteSets, TLC

\* ---- bounds of the model
NumThreads == 2
MaxKeyLen == 1
MaxVal == 1
MaxWrites == 2
MaxGets == 1

Threads == 1..NumThreads
Symbols == {"a", "b"}
Keys == UNION {[1..n -> Symbols] : n \in 0..MaxKeyLen}
\* the calls of the runs in which two Gets overlap
ReaderGets == 2
ReaderWrites == 1
\* longer keys, for the runs about keys that are prefixes of one another
DeepKeyLen == 2
DeepKeys == UNION {[1..n -> Symbols] : n \in 0..DeepKeyLen}
Types == {"int", "str"}
Values == [type : Types, v : 1..MaxVal]

\* a null node pointer, an empty value slot, an unheld mutex, no ValueGuard
Null == 0
NoValue == [type |-> "none", v |-> 0]
Free == 0
NoGuard == [root_ |-> Null, value_ |-> Null]
NoOp == [kind |-> "none", key |-> <<>>, type |-> "none", val |-> NoValue]
\* what reading through a dangling reference can produce besides a value
Garbage == [type |-> "garbage", v |-> 0]

VARIABLES
    root_,        \* TrieStore::root_ : the root node of the current snapshot
    root_lock_,   \* TrieStore::root_lock_ : Free or the holding thread
    write_lock_,  \* TrieStore::write_lock_ : Free or the holding thread
    heap,         \* the live nodes: node id -> [children, val]
    nextId,       \* the next fresh node id
    pc,           \* per thread: the source line it executes next, or "idle"
    op,           \* per thread: the call in progress
    res,          \* per thread: Get's "const T * res" (the node holding the value)
    guard,        \* per thread: the ValueGuard a Get returned, until destroyed
    out,          \* per thread: what the last operator* of its guard read
    wLeft,        \* Put/Remove calls the model still lets start
    gLeft,        \* Get calls the model still lets start
    keys,         \* the keys the calls of this run are made with
    model,        \* history: the key-value map after the writes, in write_lock_ order
    prev,         \* history: per key, its content in model before the last write to it
    view,         \* history: per thread, the roots and the value its Get has seen
    expect        \* history: per thread, what the Get in progress must observe

vars == <<root_, root_lock_, write_lock_, heap, nextId, pc, op, res, guard,
          out, wLeft, gLeft, keys, model, prev, view, expect>>

\* ---- the persistent trie (Node / Tree)

EmptyChildren == [c \in Symbols |-> Null]

\* the nodes met walking key from root r: PathOf(h, r, key)[i] is the node at
\* depth i, Null from the first absent branch on
PathOf(h, r, key) ==
    LET p[i \in 0..Len(key)] ==
            IF i = 0 THEN r
            ELSE IF p[i - 1] = Null THEN Null
            ELSE h[p[i - 1]].children[key[i]]
    IN p

\* Trie::Get<T>: the node whose value slot holds a T for key, or Null
Lookup(h, r, key, T) ==
    LET last == PathOf(h, r, key)[Len(key)]
    IN IF last = Null THEN Null
       ELSE IF h[last].val = NoValue \/ h[last].val.type # T THEN Null
       ELSE last

\* the value stored for key, whatever its type
ValueAt(h, r, key) ==
    LET last == PathOf(h, r, key)[Len(key)]
    IN IF last = Null THEN NoValue ELSE h[last].val

Content(h, r) == [k \in Keys |-> ValueAt(h, r, k)]

\* Trie::Put: path copying.  One new node per position of the key; each copies
\* the branches of the node it replaces and redirects the branch on the path.
Insert(h, r, key, value, base) ==
    LET n == Len(key)
        p == PathOf(h, r, key)
        node(i) ==
            LET kids == IF p[i] = Null THEN EmptyChildren ELSE h[p[i]].children
                old == IF p[i] = Null THEN NoValue ELSE h[p[i]].val
            IN [children |-> IF i < n
                             THEN [kids EXCEPT ![key[i + 1]] = base + i + 1]
                             ELSE kids,
                val |-> IF i = n THEN value ELSE old]
    IN [heap |-> [j \in base..(base + n) |-> node(j - base)] @@ h,
        root |-> base,
        next |-> base + n + 1]

HasChildren(h, id) == \E c \in Symbols : h[id].children[c] # Null

\* Trie::Remove: path copying with pruning.  An absent key leaves the trie as
\* it is.  Otherwise the copy of the terminal node loses its value, and a copy
\* with neither value nor branch is dropped from its parent.
Erase(h, r, key, base) ==
    LET n == Len(key)
        p == PathOf(h, r, key)
        keep[i \in 0..n] ==
            IF i = n THEN HasChildren(h, p[n])
            ELSE \/ h[p[i]].val # NoValue
                 \/ \E c \in Symbols \ {key[i + 1]} : h[p[i]].children[c] # Null
                 \/ keep[i + 1]
        kept == {i \in 0..n : keep[i]}
        node(i) ==
            [children |-> IF i < n
                          THEN [h[p[i]].children EXCEPT ![key[i + 1]] =
                                    IF keep[i + 1] THEN base + i + 1 ELSE Null]
                          ELSE h[p[i]].children,
             val |-> IF i = n THEN NoValue ELSE h[p[i]].val]
    IN IF p[n] = Null \/ h[p[n]].val = NoValue
       THEN [heap |-> h, root |-> r, next |-> base]
       ELSE [heap |-> [j \in {base + i : i \in kept} |-> node(j - base)] @@ h,
             root |-> IF keep[0] THEN base ELSE Null,
             next |-> base + Cardinality(kept)]

\* ---- shared ownership of nodes

RECURSIVE ReachFrom(_, _)
ReachFrom(h, S) ==
    LET N == (S \cup {h[n].children[c] : n \in S, c \in Symbols}) \ {Null}
    IN IF N = S THEN S ELSE ReachFrom(h, N)

\* the heap once the owning handles are exactly `owners`: a node no owner
\* reaches has lost its last reference and is destroyed
Release(h, owners) ==
    LET live == ReachFrom(h, owners \ {Null})
    IN [n \in live |-> h[n]]

GuardRoots(g) == {g[t].root_ : t \in {u \in Threads : g[u] # NoGuard}}

IsLive(n) == n \in DOMAIN heap

\* ValueGuard::operator*: the value the reference value_ reads.  A reference
\* into a destroyed node reads whatever is there.
DerefOutcomes(g) ==
    IF IsLive(g.value_) THEN {heap[g.value_].val} ELSE Values \cup {Garbage}

\* ---- history of the calls

Unknown == [type |-> "unknown", v |-> 0]
Unwritten == [type |-> "unwritten", v |-> 0]
Pending == [type |-> "pending", v |-> 0]
\* key: the key of the Get; want: what the Get must observe; stored: what the
\* key held when the Get was called; over: what the last write to the key
\* replaced
NoExpect == [key |-> <<>>, want |-> Unknown, stored |-> Unknown, over |-> Unknown]
\* locked: root_ while Get held root_lock_; looked: root_ when the lookup ran;
\* val: the value the lookup found
NoView == [locked |-> Null, looked |-> Null, val |-> NoValue]

InFlightWrite(k) ==
    \E t \in Threads : op[t].kind \in {"put", "remove"} /\ op[t].key = k

\* what a Get<T>(k) that starts now must observe: the effect of the last write
\* to k when every write to k has returned, nothing definite otherwise
ExpectAt(k, T) ==
    IF InFlightWrite(k) \/ prev[k] = Unwritten THEN NoExpect
    ELSE [key |-> k,
          want |-> IF model[k].type = T THEN model[k] ELSE NoValue,
          stored |-> model[k],
          over |-> prev[k]]

\* a write to k starts: a Get(k) in progress is no longer after the last write
Disturb(k) ==
    [t \in Threads |->
        IF op[t].kind = "get" /\ op[t].key = k THEN NoExpect ELSE expect[t]]

\* ---- initial state: a TrieStore just constructed, no call in progress

Init ==
    /\ root_ = Null
    /\ root_lock_ = Free
    /\ write_lock_ = Free
    /\ heap = [n \in {} |-> 0]
    /\ nextId = 1
    /\ pc = [t \in Threads |-> "idle"]
    /\ op = [t \in Threads |-> NoOp]
    /\ res = [t \in Threads |-> Null]
    /\ guard = [t \in Threads |-> NoGuard]
    /\ out = [t \in Threads |-> Pending]
    /\ wLeft = MaxWrites
    /\ gLeft = MaxGets
    /\ keys = Keys
    /\ model = [k \in Keys |-> NoValue]
    /\ prev = [k \in Keys |-> Unwritten]
    /\ view = [t \in Threads |-> NoView]
    /\ expect = [t \in Threads |-> NoExpect]

\* a TrieStore on which one Put(k0, v0) has run and returned, no call in progress
InitLoaded ==
    \E k0 \in Keys, v0 \in Values :
        LET r == Insert([n \in {} |-> 0], Null, k0, v0, 1)
        IN /\ root_ = r.root
           /\ heap = r.heap
           /\ nextId = r.next
           /\ model = [k \in Keys |-> IF k = k0 THEN v0 ELSE NoValue]
           /\ prev = [k \in Keys |-> IF k = k0 THEN NoValue ELSE Unwritten]
           /\ root_lock_ = Free
           /\ write_lock_ = Free
           /\ pc = [t \in Threads |-> "idle"]
           /\ op = [t \in Threads |-> NoOp]
           /\ res = [t \in Threads |-> Null]
           /\ guard = [t \in Threads |-> NoGuard]
           /\ out = [t \in Threads |-> Pending]
           /\ wLeft = MaxWrites
           /\ gLeft = MaxGets
           /\ keys = Keys
           /\ view = [t \in Threads |-> NoView]
           /\ expect = [t \in Threads |-> NoExpect]

\* the store after Put("a", 1) and Put("ab", 2) returned, the calls that follow
\* using every key of at most DeepKeyLen symbols: "a" is a prefix of "ab",
\* "aa" shares a prefix with "ab", "" is a prefix of all, "b" shares none
InitDeep ==
    LET ka == <<"a">>
        kab == <<"a", "b">>
        va == [type |-> "int", v |-> 1]
        vab == [type |-> "str", v |-> 1]
        r1 == Insert([n \in {} |-> 0], Null, ka, va, 1)
        r2 == Insert(Release(r1.heap, {r1.root}), r1.root, kab, vab, r1.next)
    IN /\ root_ = r2.root
       /\ heap = Release(r2.heap, {r2.root})
       /\ nextId = r2.next
       /\ model = [k \in DeepKeys |->
                     IF k = ka THEN va ELSE IF k = kab THEN vab ELSE NoValue]
       /\ prev = [k \in DeepKeys |->
                    IF k \in {ka, kab} THEN NoValue ELSE Unwritten]
       /\ root_lock_ = Free
       /\ write_lock_ = Free
       /\ pc = [t \in Threads |-> "idle"]
       /\ op = [t \in Threads |-> NoOp]
       /\ res = [t \in Threads |-> Null]
       /\ guard = [t \in Threads |-> NoGuard]
       /\ out = [t \in Threads |-> Pending]
       /\ wLeft = MaxWrites
       /\ gLeft = MaxGets
       /\ keys = DeepKeys
       /\ view = [t \in Threads |-> NoView]
       /\ expect = [t \in Threads |-> NoExpect]

\* a TrieStore just constructed, for runs of ReaderGets Gets
InitReaders ==
    /\ root_ = Null
    /\ root_lock_ = Free
    /\ write_lock_ = Free
    /\ heap = [n \in {} |-> 0]
    /\ nextId = 1
    /\ pc = [t \in Threads |-> "idle"]
    /\ op = [t \in Threads |-> NoOp]
    /\ res = [t \in Threads |-> Null]
    /\ guard = [t \in Threads |-> NoGuard]
    /\ out = [t \in Threads |-> Pending]
    /\ wLeft = ReaderWrites
    /\ gLeft = ReaderGets
    /\ keys = Keys
    /\ model = [k \in Keys |-> NoValue]
    /\ prev = [k \in Keys |-> Unwritten]
    /\ view = [t \in Threads |-> NoView]
    /\ expect = [t \in Threads |-> NoExpect]

store == <<root_, heap, nextId>>
locks == <<root_lock_, write_lock_>>
budget == <<wLeft, gLeft, keys>>
writes == <<model, prev>>

\* ---- a thread calls Get<T>(key), Put(key, value) or Remove(key)

CallGet(t) ==
    /\ pc[t] = "idle" /\ guard[t] = NoGuard /\ gLeft > 0
    /\ \E k \in keys, T \in Types :
          /\ op' = [op EXCEPT ![t] = [kind |-> "get", key |-> k, type |-> T,
                                      val |-> NoValue]]
          /\ expect' = [expect EXCEPT ![t] = ExpectAt(k, T)]
    /\ pc' = [pc EXCEPT ![t] = "G55"]
    /\ out' = [out EXCEPT ![t] = Pending]
    /\ gLeft' = gLeft - 1
    /\ UNCHANGED <<store, locks, res, guard, wLeft, keys, writes, view>>

CallPut(t) ==
    /\ pc[t] = "idle" /\ guard[t] = NoGuard /\ wLeft > 0
    /\ \E k \in keys, v \in Values :
          /\ op' = [op EXCEPT ![t] = [kind |-> "put", key |-> k, type |-> v.type,
                                      val |-> v]]
          /\ expect' = Disturb(k)
    /\ pc' = [pc EXCEPT ![t] = "P71"]
    /\ wLeft' = wLeft - 1
    /\ UNCHANGED <<store, locks, res, guard, out, gLeft, keys, writes, view>>

CallRemove(t) ==
    /\ pc[t] = "idle" /\ guard[t] = NoGuard /\ wLeft > 0
    /\ \E k \in keys :
          /\ op' = [op EXCEPT ![t] = [kind |-> "remove", key |-> k,
                                      type |-> "none", val |-> NoValue]]
          /\ expect' = Disturb(k)
    /\ pc' = [pc EXCEPT ![t] = "R84"]
    /\ wLeft' = wLeft - 1
    /\ UNCHANGED <<store, locks, res, guard, out, gLeft, keys, writes, view>>

\* ---- TrieStore::Get

\* line 55: root_lock_.lock()
GetLock(t) ==
    /\ pc[t] = "G55" /\ root_lock_ = Free
    /\ root_lock_' = t
    /\ view' = [view EXCEPT ![t] = [NoView EXCEPT !.locked = root_]]
    /\ pc' = [pc EXCEPT ![t] = "G57"]
    /\ UNCHANGED <<store, write_lock_, op, res, guard, out, budget, writes, expect>>

\* lines 56-57 without the root_lock_.unlock() of line 57
GetUnlockSkipped(t) ==
    /\ pc[t] = "G57" /\ root_lock_ = t
    /\ pc' = [pc EXCEPT ![t] = "G58"]
    /\ UNCHANGED <<store, locks, op, res, guard, out, budget, writes, view,
                   expect>>

\* lines 56-57: "Trie & cur = root_" binds a reference to the member root_ and
\* copies nothing; root_lock_.unlock()
GetUnlock(t) ==
    /\ pc[t] = "G57" /\ root_lock_ = t
    /\ root_lock_' = Free
    /\ pc' = [pc EXCEPT ![t] = "G58"]
    /\ UNCHANGED <<store, write_lock_, op, res, guard, out, budget, writes,
                   view, expect>>

\* line 58 with a lookup that ignores the type the caller asks for
GetLookupAnyType(t) ==
    /\ pc[t] = "G58"
    /\ LET last == PathOf(heap, root_, op[t].key)[Len(op[t].key)]
           n == IF last = Null THEN Null
                ELSE IF heap[last].val = NoValue THEN Null ELSE last
       IN /\ res' = [res EXCEPT ![t] = n]
          /\ view' = [view EXCEPT ![t].looked = root_,
                                  ![t].val = IF n = Null THEN NoValue ELSE heap[n].val]
    /\ pc' = [pc EXCEPT ![t] = "G59"]
    /\ UNCHANGED <<store, locks, op, guard, out, budget, writes, expect>>

\* line 58: cur.Get<T>(key) walks the trie that root_ holds now.  cur is
\* root_ itself, read here without root_lock_: the walk sees the snapshot from
\* before or from after a writer's assignment, whichever this step falls on.
GetLookup(t) ==
    /\ pc[t] = "G58"
    /\ LET n == Lookup(heap, root_, op[t].key, op[t].type)
       IN /\ res' = [res EXCEPT ![t] = n]
          /\ view' = [view EXCEPT ![t].looked = root_,
                                  ![t].val = IF n = Null THEN NoValue ELSE heap[n].val]
    /\ pc' = [pc EXCEPT ![t] = "G59"]
    /\ UNCHANGED <<store, locks, op, guard, out, budget, writes, expect>>

\* lines 59-63 with the guard built from std::move(cur), which empties root_
GetReturnMovesRoot(t) ==
    /\ pc[t] = "G59"
    /\ IF res[t] = Null
       THEN /\ out' = [out EXCEPT ![t] = NoValue]
            /\ UNCHANGED <<guard, root_>>
       ELSE /\ guard' = [guard EXCEPT ![t] = [root_ |-> root_, value_ |-> res[t]]]
            /\ root_' = Null
            /\ UNCHANGED out
    /\ pc' = [pc EXCEPT ![t] = "idle"]
    /\ op' = [op EXCEPT ![t] = NoOp]
    /\ res' = [res EXCEPT ![t] = Null]
    /\ UNCHANGED <<heap, nextId, locks, budget, writes, view, expect>>

\* lines 59-63: std::nullopt for a null res; otherwise ValueGuard<T>(cur, *res)
\* copies the trie that root_ holds now and keeps the reference *res
GetReturn(t) ==
    /\ pc[t] = "G59"
    /\ IF res[t] = Null
       THEN /\ out' = [out EXCEPT ![t] = NoValue]
            /\ UNCHANGED guard
       ELSE /\ guard' = [guard EXCEPT ![t] = [root_ |-> root_, value_ |-> res[t]]]
            /\ UNCHANGED out
    /\ pc' = [pc EXCEPT ![t] = "idle"]
    /\ op' = [op EXCEPT ![t] = NoOp]
    /\ res' = [res EXCEPT ![t] = Null]
    /\ UNCHANGED <<store, locks, budget, writes, view, expect>>

\* ---- ValueGuard

\* line 31: operator* reads through value_
Deref(t) ==
    /\ guard[t] # NoGuard
    /\ \E v \in DerefOutcomes(guard[t]) : out' = [out EXCEPT ![t] = v]
    /\ UNCHANGED <<store, locks, pc, op, res, guard, budget, writes, view,
                   expect>>

\* the guard goes out of scope: its Trie root_ gives up its reference
DropGuard(t) ==
    /\ guard[t] # NoGuard
    /\ guard' = [guard EXCEPT ![t] = NoGuard]
    /\ heap' = Release(heap, {root_} \cup GuardRoots(guard'))
    /\ out' = [out EXCEPT ![t] = Pending]
    /\ view' = [view EXCEPT ![t] = NoView]
    /\ expect' = [expect EXCEPT ![t] = NoExpect]
    /\ UNCHANGED <<root_, nextId, locks, pc, op, res, budget, writes>>

\* ---- TrieStore::Put

\* Put as it would be with write_lock_ taken without waiting for its holder
PutLockWriteNoWait(t) ==
    /\ pc[t] = "P71"
    /\ write_lock_' = t
    /\ model' = [model EXCEPT ![op[t].key] = op[t].val]
    /\ prev' = [prev EXCEPT ![op[t].key] = model[op[t].key]]
    /\ pc' = [pc EXCEPT ![t] = "P72"]
    /\ UNCHANGED <<store, root_lock_, op, res, guard, out, budget, view,
                   expect>>

\* line 71: write_lock_.lock().  This is where the write takes its place in
\* the order of the writes.
PutLockWrite(t) ==
    /\ pc[t] = "P71" /\ write_lock_ = Free
    /\ write_lock_' = t
    /\ model' = [model EXCEPT ![op[t].key] = op[t].val]
    /\ prev' = [prev EXCEPT ![op[t].key] = model[op[t].key]]
    /\ pc' = [pc EXCEPT ![t] = "P72"]
    /\ UNCHANGED <<store, root_lock_, op, res, guard, out, budget, view,
                   expect>>

\* line 72: root_lock_.lock()
PutLockRoot(t) ==
    /\ pc[t] = "P72" /\ root_lock_ = Free
    /\ root_lock_' = t
    /\ pc' = [pc EXCEPT ![t] = "P73"]
    /\ UNCHANGED <<store, write_lock_, op, res, guard, out, budget, writes,
                   view, expect>>

\* Put as it would be building the new trie from an empty one instead of root_
PutPublishFromEmpty(t) ==
    /\ pc[t] = "P73"
    /\ LET r == Insert(heap, Null, op[t].key, op[t].val, nextId)
       IN /\ root_' = r.root
          /\ nextId' = r.next
          /\ heap' = Release(r.heap, {r.root} \cup GuardRoots(guard))
    /\ pc' = [pc EXCEPT ![t] = "P74"]
    /\ UNCHANGED <<locks, op, res, guard, out, budget, writes, view, expect>>

\* line 73 with a new root that keeps only the branch on the path of the key
PutPublishPathOnly(t) ==
    /\ pc[t] = "P73"
    /\ LET key == op[t].key
           r == Insert(heap, root_, key, op[t].val, nextId)
           h == [r.heap EXCEPT ![r.root].children =
                    [c \in Symbols |->
                        IF Len(key) > 0 /\ c = key[1] THEN @[c] ELSE Null]]
       IN /\ root_' = r.root
          /\ nextId' = r.next
          /\ heap' = Release(h, {r.root} \cup GuardRoots(guard))
    /\ pc' = [pc EXCEPT ![t] = "P74"]
    /\ UNCHANGED <<locks, op, res, guard, out, budget, writes, view, expect>>

\* line 73: root_ = root_.Put<T>(key, std::move(value)) builds the new trie
\* from the one root_ holds, then root_ takes it and gives up the old one
PutPublish(t) ==
    /\ pc[t] = "P73"
    /\ LET r == Insert(heap, root_, op[t].key, op[t].val, nextId)
       IN /\ root_' = r.root
          /\ nextId' = r.next
          /\ heap' = Release(r.heap, {r.root} \cup GuardRoots(guard))
    /\ pc' = [pc EXCEPT ![t] = "P74"]
    /\ UNCHANGED <<locks, op, res, guard, out, budget, writes, view, expect>>

\* Put as it would be without line 74: root_lock_ stays held
PutUnlockRootForgotten(t) ==
    /\ pc[t] = "P74" /\ root_lock_ = t
    /\ pc' = [pc EXCEPT ![t] = "P75"]
    /\ UNCHANGED <<store, locks, op, res, guard, out, budget, writes, view, expect>>

\* line 74 with the two unlock() calls in the other order: write_lock_ first
PutUnlockWriteFirst(t) ==
    /\ pc[t] = "P74" /\ write_lock_ = t
    /\ write_lock_' = Free
    /\ pc' = [pc EXCEPT ![t] = "P75"]
    /\ UNCHANGED <<store, root_lock_, op, res, guard, out, budget, writes,
                   view, expect>>

\* line 74: root_lock_.unlock()
PutUnlockRoot(t) ==
    /\ pc[t] = "P74" /\ root_lock_ = t
    /\ root_lock_' = Free
    /\ pc' = [pc EXCEPT ![t] = "P75"]
    /\ UNCHANGED <<store, write_lock_, op, res, guard, out, budget, writes,
                   view, expect>>

\* line 75: write_lock_.unlock(), and Put returns
PutUnlockWrite(t) ==
    /\ pc[t] = "P75" /\ write_lock_ = t
    /\ write_lock_' = Free
    /\ pc' = [pc EXCEPT ![t] = "idle"]
    /\ op' = [op EXCEPT ![t] = NoOp]
    /\ UNCHANGED <<store, root_lock_, res, guard, out, budget, writes, view,
                   expect>>

\* ---- TrieStore::Remove

\* line 84: write_lock_.lock()
RemoveLockWrite(t) ==
    /\ pc[t] = "R84" /\ write_lock_ = Free
    /\ write_lock_' = t
    /\ model' = [model EXCEPT ![op[t].key] = NoValue]
    /\ prev' = [prev EXCEPT ![op[t].key] = model[op[t].key]]
    /\ pc' = [pc EXCEPT ![t] = "R85"]
    /\ UNCHANGED <<store, root_lock_, op, res, guard, out, budget, view,
                   expect>>

\* line 85: root_lock_.lock()
RemoveLockRoot(t) ==
    /\ pc[t] = "R85" /\ root_lock_ = Free
    /\ root_lock_' = t
    /\ pc' = [pc EXCEPT ![t] = "R86"]
    /\ UNCHANGED <<store, write_lock_, op, res, guard, out, budget, writes,
                   view, expect>>

\* line 86 with the result of root_.Remove(key) never assigned to root_
RemovePublishDropped(t) ==
    /\ pc[t] = "R86"
    /\ pc' = [pc EXCEPT ![t] = "R87"]
    /\ UNCHANGED <<store, locks, op, res, guard, out, budget, writes, view,
                   expect>>

\* line 86 with an empty trie assigned to root_
RemovePublishClears(t) ==
    /\ pc[t] = "R86"
    /\ root_' = Null
    /\ heap' = Release(heap, GuardRoots(guard))
    /\ pc' = [pc EXCEPT ![t] = "R87"]
    /\ UNCHANGED <<nextId, locks, op, res, guard, out, budget, writes, view,
                   expect>>

\* line 86: root_ = root_.Remove(key)
RemovePublish(t) ==
    /\ pc[t] = "R86"
    /\ LET r == Erase(heap, root_, op[t].key, nextId)
       IN /\ root_' = r.root
          /\ nextId' = r.next
          /\ heap' = Release(r.heap, {r.root} \cup GuardRoots(guard))
    /\ pc' = [pc EXCEPT ![t] = "R87"]
    /\ UNCHANGED <<locks, op, res, guard, out, budget, writes, view, expect>>

\* line 87: root_lock_.unlock()
RemoveUnlockRoot(t) ==
    /\ pc[t] = "R87" /\ root_lock_ = t
    /\ root_lock_' = Free
    /\ pc' = [pc EXCEPT ![t] = "R88"]
    /\ UNCHANGED <<store, write_lock_, op, res, guard, out, budget, writes,
                   view, expect>>

\* line 88: write_lock_.unlock(), and Remove returns
RemoveUnlockWrite(t) ==
    /\ pc[t] = "R88" /\ write_lock_ = t
    /\ write_lock_' = Free
    /\ pc' = [pc EXCEPT ![t] = "idle"]
    /\ op' = [op EXCEPT ![t] = NoOp]
    /\ UNCHANGED <<store, root_lock_, res, guard, out, budget, writes, view,
                   expect>>

\* ---- a failed allocation

\* line 73: root_.Put throws (std::bad_alloc from the allocation of a node)
\* before anything is assigned.  The exception leaves Put at once: lines 74
\* and 75 are not run, no destructor unlocks, both mutexes stay locked.
PutThrows(t) ==
    /\ pc[t] = "P73"
    /\ pc' = [pc EXCEPT ![t] = "idle"]
    /\ op' = [op EXCEPT ![t] = NoOp]
    /\ model' = [model EXCEPT ![op[t].key] = prev[op[t].key]]
    /\ prev' = [prev EXCEPT ![op[t].key] = Unwritten]
    /\ UNCHANGED <<store, locks, res, guard, out, budget, view, expect>>

\* line 86: root_.Remove throws in the same way; lines 87 and 88 are not run
RemoveThrows(t) ==
    /\ pc[t] = "R86"
    /\ pc' = [pc EXCEPT ![t] = "idle"]
    /\ op' = [op EXCEPT ![t] = NoOp]
    /\ model' = [model EXCEPT ![op[t].key] = prev[op[t].key]]
    /\ prev' = [prev EXCEPT ![op[t].key] = Unwritten]
    /\ UNCHANGED <<store, locks, res, guard, out, budget, view, expect>>

\* ---- the program

\* a step of the call thread t is in
Step(t) ==
    \/ GetLock(t) \/ GetUnlock(t) \/ GetLookup(t) \/ GetReturn(t)
    \/ PutLockWrite(t) \/ PutLockRoot(t) \/ PutPublish(t)
    \/ PutUnlockRoot(t) \/ PutUnlockWrite(t)
    \/ RemoveLockWrite(t) \/ RemoveLockRoot(t) \/ RemovePublish(t)
    \/ RemoveUnlockRoot(t) \/ RemoveUnlockWrite(t)

Next ==
    \E t \in Threads :
        \/ CallGet(t) \/ CallPut(t) \/ CallRemove(t)
        \/ Step(t)
        \/ Deref(t) \/ DropGuard(t)

Spec == Init /\ [][Next]_vars

\* the same program, started on a store that already holds one key
SpecLoaded == InitLoaded /\ [][Next]_vars

\* the same program, started on a store that holds "a" and "ab"
SpecDeep == InitDeep /\ [][Next]_vars

\* the same program, with runs in which two Gets overlap
SpecReaders == InitReaders /\ [][Next]_vars

\* the program when an allocation inside Put or Remove can fail
NextOOM ==
    \/ Next
    \/ \E t \in Threads : PutThrows(t) \/ RemoveThrows(t)

SpecOOM == Init /\ [][NextOOM]_vars

\* every thread that can take a step of its call eventually takes one
SpecFair == Spec /\ \A t \in Threads : WF_vars(Step(t))

\* ---- the claims

InGet(t) == op[t].kind = "get"
\* between write_lock_.lock() and write_lock_.unlock()
WriteSection == {"P72", "P73", "P74", "P75", "R85", "R86", "R87", "R88"}
\* holding write_lock_ with the new snapshot not yet published
BeforePublish == {"P72", "P73", "R85", "R86"}
WaitsForWriteLock(t) == pc[t] \in {"P71", "R84"}

\* the snapshot a guard owns contains the node its reference points into
GuardOwnsValue(g) == g.value_ \in ReachFrom(heap, {g.root_} \ {Null})

\* C1: snapshot isolation.  As long as a guard exists, dereferencing it yields
\* the value its Get found, and the snapshot it owns is the one that contains
\* the referenced value.
C1_SnapshotIsolation ==
    \A t \in Threads :
        guard[t] # NoGuard =>
            /\ GuardOwnsValue(guard[t])
            /\ DerefOutcomes(guard[t]) = {view[t].val}

\* C2: Get works on a private snapshot.  The lookup and the returned guard use
\* the snapshot that was current while Get held root_lock_, whatever a writer
\* published after Get released the lock.
C2_PrivateSnapshot ==
    \A t \in Threads :
        /\ InGet(t) /\ pc[t] = "G59" => view[t].looked = view[t].locked
        /\ guard[t] # NoGuard => guard[t].root_ = view[t].locked

\* C3: node lifetime.  A node that a Get in progress or a guard references is
\* not destroyed.
C3_NodeLifetime ==
    \A t \in Threads :
        /\ res[t] # Null => IsLive(res[t])
        /\ guard[t] # NoGuard => IsLive(guard[t].value_)

\* C4: writers are mutually exclusive.  At most one thread is between
\* acquiring and releasing write_lock_, and it is the one recorded as holder.
C4_WritersExclusive ==
    /\ Cardinality({t \in Threads : pc[t] \in WriteSection}) <= 1
    /\ \A t \in Threads : pc[t] \in WriteSection => write_lock_ = t

\* a writer is inside the section while another writer waits to enter it
C4_Witness ==
    \E t, u \in Threads :
        t # u /\ pc[t] \in {"P73", "R86"} /\ WaitsForWriteLock(u)

\* C5: no lost updates.  The current snapshot holds exactly what the writes
\* give when applied one after another, in the order they took write_lock_,
\* to a key-value map; a writer that has the lock and has not published yet
\* is the one write still missing.
C5_NoLostUpdates ==
    LET pending == {t \in Threads : pc[t] \in BeforePublish}
    IN /\ pending = {} => Content(heap, root_) = model
       /\ \A t \in pending :
             Content(heap, root_) = [model EXCEPT ![op[t].key] = prev[op[t].key]]

\* a writer has just published on top of what an earlier writer published:
\* the current snapshot holds two keys
C5_Witness ==
    \E t \in Threads : \E k1, k2 \in Keys :
        /\ pc[t] \in {"P74", "P75"} /\ k1 = op[t].key /\ k2 # k1
        /\ ValueAt(heap, root_, k1) \in Values
        /\ ValueAt(heap, root_, k2) \in Values

\* a call is in progress and no thread in a call can take a step
Deadlocked ==
    /\ \E t \in Threads : pc[t] # "idle"
    /\ \A t \in Threads : ~ ENABLED Step(t)

Returned(t) == pc[t] = "idle" /\ root_lock_ # t /\ write_lock_ # t

C7_RootLockOnlyForSwap ==
    \A t \in Threads : pc[t] \in {"P73", "R86"} => root_lock_ # t

\* C8: visibility after return.  A Get(k) that starts after the last write to
\* k returned, with no write to k starting before it ends, observes that
\* write: the value put, or nothing after a Remove.
C8_VisibleAfterReturn ==
    \A t \in Threads :
        expect[t].want # Unknown /\ out[t] # Pending => out[t] = expect[t].want

\* C9: round trip.  Get<T>(k) after Put(k, v), v a T, with no write to k in
\* between, returns a guard, and dereferencing the guard yields v.
C9_RoundTrip ==
    \A t \in Threads :
        expect[t].want \in Values /\ ~ InGet(t) =>
            /\ guard[t] # NoGuard
            /\ DerefOutcomes(guard[t]) = {expect[t].want}

\* C10: overwrite.  Put(k, v2) on a key holding v1 leaves k holding v2, and a
\* Get(k) after it yields v2 and not v1.
C10_Overwrite ==
    /\ \A t \in Threads :
          pc[t] \in {"P74", "P75"} => ValueAt(heap, root_, op[t].key) = op[t].val
    /\ \A t \in Threads :
          (/\ expect[t].want \in Values /\ expect[t].over \in Values
           /\ expect[t].want # expect[t].over /\ out[t] # Pending)
          => out[t] = expect[t].want

\* a Get whose call came after a Remove(k) of a stored key returned, with no
\* write to k since
AfterRemove(t) ==
    expect[t].stored = NoValue /\ expect[t].over \in Values

\* C11: deletion.  Get(k) after Put(k, v) and then Remove(k), with no write to
\* k in between, returns std::nullopt and no guard.
C11_Deletion ==
    \A t \in Threads :
        AfterRemove(t) /\ ~ InGet(t) => out[t] = NoValue /\ guard[t] = NoGuard

\* such a Get has returned while the other thread is inside a write to
\* another key
C11_Witness ==
    \E t, u \in Threads :
        /\ t # u /\ AfterRemove(t) /\ ~ InGet(t) /\ out[t] = NoValue
        /\ pc[u] \in WriteSection

\* a Get<T2> called on a key that holds a value of another type T1, with no
\* write to the key since the call
TypeMismatch(t) ==
    expect[t].stored \in Values /\ expect[t].want = NoValue

GetStep(t) == GetLock(t) \/ GetUnlock(t) \/ GetLookup(t) \/ GetReturn(t)

\* C12: type isolation.  Get<T2>(k) on a key holding a T1 value, T2 # T1,
\* returns std::nullopt like any other miss, no step of it changes the store,
\* and when it returns the key still holds the T1 value, where a Get<T1>
\* finds it.
C12_TypeIsolation ==
    /\ [](\A t \in Threads :
            TypeMismatch(t) /\ ~ InGet(t) =>
                out[t] = NoValue /\ guard[t] = NoGuard)
    /\ [][\A t \in Threads :
            TypeMismatch(t) /\ GetStep(t) =>
                /\ UNCHANGED store
                /\ pc'[t] = "idle" =>
                      LET v == expect[t].stored
                      IN /\ ValueAt(heap', root_', op[t].key) = v
                         /\ Lookup(heap', root_', op[t].key, v.type) # Null]_vars

\* a Get of the other type has returned std::nullopt and the key holds its
\* value
C12_Witness ==
    \E t \in Threads :
        /\ TypeMismatch(t) /\ ~ InGet(t) /\ out[t] = NoValue
        /\ ValueAt(heap, root_, expect[t].key) = expect[t].stored

\* what Get<T>(k) finds in the current snapshot before and after a step is
\* the same value
SameAt(k) == ValueAt(heap', root_', k) = ValueAt(heap, root_, k)

IsPrefix(a, b) == Len(a) <= Len(b) /\ SubSeq(b, 1, Len(a)) = a

\* C13: Put touches only its own key.  The assignment of Put(k, v) to root_
\* leaves every other key k', a prefix of k, an extension of k or a key
\* sharing a prefix with k included, with the value it had, and k with v.
C13_PutOwnKey ==
    [][\A t \in Threads :
          PutPublish(t) =>
              /\ \A k \in DeepKeys \ {op[t].key} : SameAt(k)
              /\ ValueAt(heap', root_', op[t].key) = op[t].val]_vars

\* Put("aa", v) has been published on a store that holds "a", a prefix of
\* the key, and "ab", which shares the prefix "a" with it
C13_Witness ==
    \E t \in Threads :
        /\ pc[t] = "P74" /\ op[t].key = <<"a", "a">>
        /\ ValueAt(heap, root_, <<"a">>) \in Values
        /\ ValueAt(heap, root_, <<"a", "b">>) \in Values
        /\ ValueAt(heap, root_, <<"b">>) = NoValue

\* C14: Remove touches only its own key.  The assignment of Remove(k) to
\* root_ can always be made; it leaves every other key with the value it had
\* and k with none; when k holds no value it leaves every key as it was.
C14_RemoveOwnKey ==
    /\ [](\A t \in Threads : pc[t] = "R86" => ENABLED RemovePublish(t))
    /\ [][\A t \in Threads :
            RemovePublish(t) =>
                /\ \A k \in DeepKeys \ {op[t].key} : SameAt(k)
                /\ ValueAt(heap', root_', op[t].key) = NoValue
                /\ ValueAt(heap, root_, op[t].key) = NoValue =>
                      \A k \in DeepKeys : SameAt(k)]_vars

\* Remove("a") has been published on a store that held "a" and still holds
\* "ab", whose path runs through the node of "a"
C14_Witness ==
    \E t \in Threads :
        /\ pc[t] = "R87" /\ op[t].key = <<"a">>
        /\ prev[<<"a">>] \in Values
        /\ ValueAt(heap, root_, <<"a">>) = NoValue
        /\ ValueAt(heap, root_, <<"a", "b">>) \in Values

\* C15: Get is a pure read.  No step of a Get, and no use or destruction of a
\* guard, changes which snapshot is current: root_ changes only in the
\* assignment of a Put (line 73) or of a Remove (line 86).
C15_GetPureRead ==
    [][/\ root_' # root_ => \E t \in Threads : PutPublish(t) \/ RemovePublish(t)
       /\ \A t \in Threads :
             CallGet(t) \/ GetStep(t) \/ Deref(t) \/ DropGuard(t) =>
                 /\ root_' = root_
                 /\ \A k \in keys : SameAt(k)]_vars

\* a Get has returned a guard on a store that holds a value, and the guard
\* has been read
C15_Witness ==
    \E t \in Threads :
        guard[t] # NoGuard /\ out[t] \in Values /\ root_ # Null

\* the next step of the Get of t reads root_: the walk of line 58, or the
\* copy into the guard at line 63
ReadsRoot(t) == pc[t] = "G58" \/ (pc[t] = "G59" /\ res[t] # Null)
\* the next step of the writer t assigns root_
AssignsRoot(t) == pc[t] \in {"P73", "R86"}

\* C16: every access to root_ is made holding root_lock_.  A Get about to
\* read root_ holds the lock, a writer about to assign it holds the lock, and
\* no thread is about to read root_ without the lock while another is about
\* to assign it.
C16_RootUnderLock ==
    /\ \A t \in Threads : ReadsRoot(t) \/ AssignsRoot(t) => root_lock_ = t
    /\ \A t, u \in Threads :
          ~ (ReadsRoot(t) /\ root_lock_ # t /\ AssignsRoot(u))

\* C17: readers and the locks.  A Get never holds or takes write_lock_; while
\* it looks the key up it holds neither lock, so it waits for no other Get
\* and for no writer.
C17_ReadersLockFree ==
    /\ [](\A t \in Threads :
            /\ InGet(t) => write_lock_ # t
            /\ pc[t] = "G58" => root_lock_ # t /\ write_lock_ # t
            /\ pc[t] = "G58" => ENABLED GetLookup(t))
    /\ [][\A t \in Threads : GetStep(t) => UNCHANGED write_lock_]_vars

\* two Gets are in their lookup at the same time
C17_Witness ==
    \E t, u \in Threads : t # u /\ pc[t] = "G58" /\ pc[u] = "G58"

\* t is in Put or Remove and holds root_lock_
WriterHoldsRoot(t) == op[t].kind \in {"put", "remove"} /\ root_lock_ = t

\* C18: lock ordering.  A writer holding root_lock_ holds write_lock_ too: it
\* takes write_lock_ first and releases it last; no thread holding
\* root_lock_ takes or waits for write_lock_.
C18_LockOrder ==
    /\ [](\A t \in Threads :
            /\ WriterHoldsRoot(t) => write_lock_ = t
            /\ WaitsForWriteLock(t) => root_lock_ # t)
    /\ [][\A t \in Threads :
            /\ (write_lock_ # t /\ write_lock_' = t) =>
                  root_lock_ # t /\ root_lock_' # t
            /\ (write_lock_ = t /\ write_lock_' # t) =>
                  root_lock_ # t /\ root_lock_' # t]_vars

\* a writer has published and holds both locks, about to release root_lock_
C18_Witness ==
    \E t \in Threads :
        pc[t] \in {"P74", "R87"} /\ root_lock_ = t /\ write_lock_ = t

\* C19: no partial failure.  A call that has ended, normally or with an
\* exception out of the tree computation, holds neither lock, and the calls
\* in progress are not all blocked.
C19_NoPartialFailure ==
    /\ \A t \in Threads : pc[t] = "idle" => root_lock_ # t /\ write_lock_ # t
    /\ ~ Deadlocked

====
